---- MODULE Spec2Model ----
(***************************************************************************)
(* Model of the AMR scheduling core of api/index.py: the forgetting-curve  *)
(* predictor calculate_retention, the scheduler schedule_next_review and   *)
(* the review updater update_card_on_review, together with the system      *)
(* clock they read through datetime.utcnow().                              *)
(*                                                                         *)
(* Numbers.  Python floats are modelled in fixed point:                    *)
(*   strength   in thousandths            (1.0      = 1000)                *)
(*   multiplier in hundredths             (1.30     = 130)                 *)
(*   time       in millionths of a day    (0.5 days = 500000)              *)
(* A retention is kept by its natural logarithm, in thousandths: the float *)
(* exp(x) is [kind |-> "exp", ln |-> 1000 * x]; the float 0.0 is kind      *)
(* "zero" (also what exp underflows to) and a raised OverflowError is kind *)
(* "OverflowError".                                                        *)
(* A datetime is the number of time units since the epoch; an ISO-8601     *)
(* string is the pair <<whole days, fraction of the day>>; None is <<>>.   *)
(***************************************************************************)
EXTENDS Integers, Sequences, FiniteSets, TLC

VARIABLES clock, card_data, other_card, reviews, lastReview, lastCall, prevCall

vars == <<clock, card_data, other_card, reviews, lastReview, lastCall, prevCall>>

-----------------------------------------------------------------------------
(* Bounds of the model                                                     *)

MaxReviews == 2

MaxTicks == 2

MaxPast == 3

MaxStreak == 5

ClockStep == 250000

InitStrengths == {50, 1000, 2000, 3000}

InitBoxes == {1, 3, 5}

Qualities == -1 .. 6

ApiStrengths == {0, 1, 1000, 3076, 3077}

-----------------------------------------------------------------------------
(* Configuration constants                                                 *)

SScale == 1000

DayUnits == 1000000

LnUnit == 1000

ExpUnderflow == 745134

ExpOverflow == 709783

DEFAULT_STRENGTH == 1000

NegLnRetentionTarget == 162519

MIN_INTERVAL_DAYS == 500000

BOX_COUNT == 5

StrengthFloor == 100

PerfectBonus == 200

None == <<>>

QUALITY_MULTIPLIER == [q \in 0 .. 5 |->
    CASE q = 5 -> 130
      [] q = 4 -> 115
      [] q = 3 -> 105
      [] q = 2 -> 85
      [] q = 1 -> 60
      [] q = 0 -> 45]

-----------------------------------------------------------------------------
(* Arithmetic helpers                                                      *)

Max(a, b) == IF a >= b THEN a ELSE b

Min(a, b) == IF a <= b THEN a ELSE b

\* a / b rounded to the nearest unit (a >= 0, b > 0), as float rounding does
RoundDiv(a, b) == (a \div b) + (IF 2 * (a % b) >= b THEN 1 ELSE 0)

-----------------------------------------------------------------------------
(* Timestamps at the boundary                                              *)

isoformat(dt) == <<dt \div DayUnits, dt % DayUnits>>

fromisoformat(s) == s[1] * DayUnits + s[2]

\* the last_review strings the retention endpoint is called with
ApiLastReviews ==
    {None} \cup {isoformat(i * ClockStep) : i \in (0 - MaxPast) .. MaxTicks}

-----------------------------------------------------------------------------
(* calculate_retention                                                     *)

Zero == [kind |-> "zero", ln |-> 0]

\* math.exp(x) for x = ln / LnUnit, with the range of an IEEE double
exp(ln) ==
    IF ln >= ExpOverflow THEN [kind |-> "OverflowError", ln |-> 0]
    ELSE IF 0 - ln >= ExpUnderflow THEN Zero
    ELSE [kind |-> "exp", ln |-> ln]

\* max(1e-6, strength), in millionths
Divisor(strength) == Max(1, strength * 1000)

Exponent_positive(t_days, strength) ==
    IF t_days >= 0 THEN RoundDiv(LnUnit * t_days, Divisor(strength))
                   ELSE 0 - RoundDiv(LnUnit * (0 - t_days), Divisor(strength))

\* -t_days / max(1e-6, strength), in units of 1 / LnUnit
Exponent(t_days, strength) ==
    IF t_days >= 0 THEN 0 - RoundDiv(LnUnit * t_days, Divisor(strength))
                   ELSE RoundDiv(LnUnit * (0 - t_days), Divisor(strength))

calculate_retention_swapped(strength, last_review) ==
    IF last_review = None THEN Zero
    ELSE LET last_dt == fromisoformat(last_review)
             t_days  == last_dt - clock
         IN  exp(Exponent(t_days, strength))

calculate_retention_noneIsNow(strength, last_review) ==
    IF last_review = None THEN exp(Exponent(0, strength))
    ELSE LET last_dt == fromisoformat(last_review)
             t_days  == clock - last_dt
         IN  exp(Exponent(t_days, strength))

calculate_retention(strength, last_review) ==
    IF last_review = None THEN Zero
    ELSE LET last_dt == fromisoformat(last_review)
             t_days  == clock - last_dt
         IN  exp(Exponent(t_days, strength))

-----------------------------------------------------------------------------
(* schedule_next_review                                                    *)

\* -strength * math.log(RETENTION_TARGET)
IntervalDays(strength) ==
    IF strength >= 0 THEN RoundDiv(strength * NegLnRetentionTarget, SScale)
                     ELSE 0 - RoundDiv((0 - strength) * NegLnRetentionTarget, SScale)

schedule_next_review_unclamped(strength, now) ==
    isoformat(now + IntervalDays(strength))

schedule_next_review(strength, now) ==
    LET t_days == Max(IntervalDays(strength), MIN_INTERVAL_DAYS)
    IN  isoformat(now + t_days)

-----------------------------------------------------------------------------
(* update_card_on_review                                                   *)

ValidQuality_noUpper(quality) == ~(quality < 0)

ValidQuality(quality) == ~(quality < 0 \/ quality > 5)

Multiplier_neutral3(quality) ==
    IF quality = 3 THEN 100
    ELSE IF quality \in DOMAIN QUALITY_MULTIPLIER THEN QUALITY_MULTIPLIER[quality]
    ELSE 100

\* QUALITY_MULTIPLIER.get(quality, 1.0)
Multiplier(quality) ==
    IF quality \in DOMAIN QUALITY_MULTIPLIER THEN QUALITY_MULTIPLIER[quality]
                                             ELSE 100

NewStrength_noFloor(strength, quality) ==
    LET floored == RoundDiv(strength * Multiplier(quality), 100)
    IN  IF quality = 5 THEN floored + PerfectBonus ELSE floored

NewStrength_bonusFirst(strength, quality) ==
    LET scaled == RoundDiv(strength * Multiplier(quality), 100)
    IN  Max(StrengthFloor, IF quality = 5 THEN scaled + PerfectBonus ELSE scaled)

NewStrength(strength, quality) ==
    LET floored == Max(StrengthFloor, RoundDiv(strength * Multiplier(quality), 100))
    IN  IF quality = 5 THEN floored + PerfectBonus ELSE floored

NewBox_noCap(box, quality) ==
    IF quality >= 4 THEN box + 1
    ELSE IF quality <= 2 THEN 1
    ELSE box

NewBox_advanceOn3(box, quality) ==
    IF quality >= 3 THEN Min(BOX_COUNT, box + 1)
    ELSE IF quality <= 2 THEN 1
    ELSE box

NewBox_noReset(box, quality) ==
    IF quality >= 4 THEN Min(BOX_COUNT, box + 1)
    ELSE IF quality <= 2 THEN Max(1, box - 1)
    ELSE box

NewBox_resetOn3(box, quality) ==
    IF quality >= 4 THEN Min(BOX_COUNT, box + 1)
    ELSE IF quality <= 3 THEN 1
    ELSE box

NewBox(box, quality) ==
    IF quality >= 4 THEN Min(BOX_COUNT, box + 1)
    ELSE IF quality <= 2 THEN 1
    ELSE box

HistoryEntry_newAsOld(card, quality, now) ==
    [time         |-> isoformat(now),
     quality      |-> quality,
     old_strength |-> NewStrength(card.strength, quality),
     old_box      |-> NewBox(card.box, quality),
     new_strength |-> NewStrength(card.strength, quality),
     new_box      |-> NewBox(card.box, quality)]

HistoryEntry(card, quality, now) ==
    [time         |-> isoformat(now),
     quality      |-> quality,
     old_strength |-> card.strength,
     old_box      |-> card.box,
     new_strength |-> NewStrength(card.strength, quality),
     new_box      |-> NewBox(card.box, quality)]

\* if "history" not in card_data: card_data["history"] = []; then append
AppendHistory_overwrite(card, entry) == <<entry>>

AppendHistory(card, entry) ==
    IF card.has_history THEN Append(card.history, entry) ELSE <<entry>>

\* the record after the body of update_card_on_review ran with clock sample now
Reviewed_oldStrength(card, quality, now) ==
    [card EXCEPT
        !.strength    = NewStrength(card.strength, quality),
        !.box         = NewBox(card.box, quality),
        !.last_review = isoformat(now),
        !.next_review = schedule_next_review(card.strength, now),
        !.has_history = TRUE,
        !.history     = AppendHistory(card, HistoryEntry(card, quality, now))]

Reviewed_resampled(card, quality, now) ==
    [card EXCEPT
        !.strength    = NewStrength(card.strength, quality),
        !.box         = NewBox(card.box, quality),
        !.last_review = isoformat(now + 1),
        !.next_review = schedule_next_review(NewStrength(card.strength, quality), now),
        !.has_history = TRUE,
        !.history     = AppendHistory(card, HistoryEntry(card, quality, now))]

Reviewed(card, quality, now) ==
    [card EXCEPT
        !.strength    = NewStrength(card.strength, quality),
        !.box         = NewBox(card.box, quality),
        !.last_review = isoformat(now),
        !.next_review = schedule_next_review(NewStrength(card.strength, quality), now),
        !.has_history = TRUE,
        !.history     = AppendHistory(card, HistoryEntry(card, quality, now))]

-----------------------------------------------------------------------------
(* State                                                                   *)

NoCall == [op |-> "none"]

NewCard(strength, box) ==
    [id          |-> "card-1",
     front       |-> "front",
     back        |-> "back",
     strength    |-> strength,
     box         |-> box,
     last_review |-> None,
     next_review |-> None,
     has_history |-> FALSE,
     history     |-> <<>>]

\* another record of the caller, never passed to the core
OtherCard == [NewCard(DEFAULT_STRENGTH, 1) EXCEPT !.id = "card-2"]

Init ==
    /\ clock = 0
    /\ \E s \in InitStrengths, b \in InitBoxes : card_data = NewCard(s, b)
    /\ other_card = OtherCard
    /\ reviews = 0
    /\ lastReview = NoCall
    /\ lastCall = NoCall
    /\ prevCall = NoCall

\* the system clock read by datetime.utcnow() moves forward ...
Tick ==
    /\ clock < MaxTicks * ClockStep
    /\ clock' = clock + ClockStep
    /\ UNCHANGED <<card_data, other_card, reviews, lastReview, lastCall, prevCall>>

\* ... and, being the wall clock, can be set back
ClockAdjust ==
    /\ clock >= ClockStep
    /\ clock' = clock - ClockStep
    /\ UNCHANGED <<card_data, other_card, reviews, lastReview, lastCall, prevCall>>

\* card_data[...] = ... writes into the dict that was passed in, so the
\* caller's record becomes the updated one
InPlace_copy(card, updated) == card

InPlace(card, updated) == updated

\* update_card_on_review, called while the history has fewer than limit entries
update_card_on_review_upto(limit, quality) ==
    IF ~ValidQuality(quality)
    THEN /\ lastReview' = [op |-> "update_card_on_review", quality |-> quality,
                           ret |-> "ValueError"]
         /\ UNCHANGED <<clock, card_data, other_card, reviews, lastCall, prevCall>>
    ELSE /\ Len(card_data.history) < limit
         /\ LET now     == clock
                updated == Reviewed(card_data, quality, now)
            IN  /\ card_data' = InPlace(card_data, updated)
                /\ lastReview' = [op |-> "update_card_on_review",
                                  quality |-> quality,
                                  ret |-> "ok", returned |-> updated]
         /\ reviews' = reviews + 1
         /\ UNCHANGED <<clock, other_card, lastCall, prevCall>>

update_card_on_review(quality) == update_card_on_review_upto(MaxReviews, quality)

Review == \E quality \in Qualities : update_card_on_review(quality)

Next == Tick \/ ClockAdjust \/ Review

Spec == Init /\ [][Next]_vars

-----------------------------------------------------------------------------
(* The two stateless endpoints, which call the predictor and the scheduler *)

InitApi ==
    /\ clock = 0
    /\ card_data = NewCard(DEFAULT_STRENGTH, 1)
    /\ other_card = OtherCard
    /\ reviews = 0
    /\ lastReview = NoCall
    /\ lastCall = NoCall
    /\ prevCall = NoCall

calculate_card_retention(strength, last_review) ==
    /\ prevCall' = lastCall
    /\ lastCall' = [op   |-> "calculate_retention",
                    args |-> <<strength, last_review>>,
                    now  |-> clock,
                    ret  |-> calculate_retention(strength, last_review)]
    /\ UNCHANGED <<clock, card_data, other_card, reviews, lastReview>>

calculate_schedule(strength) ==
    /\ prevCall' = lastCall
    /\ lastCall' = [op   |-> "schedule_next_review",
                    args |-> <<strength, clock>>,
                    ret  |-> schedule_next_review(strength, clock)]
    /\ UNCHANGED <<clock, card_data, other_card, reviews, lastReview>>

Retention ==
    \E strength \in ApiStrengths, last_review \in ApiLastReviews :
        calculate_card_retention(strength, last_review)

Schedule == \E strength \in ApiStrengths : calculate_schedule(strength)

NextApi == Tick \/ ClockAdjust \/ Retention \/ Schedule

SpecApi == InitApi /\ [][NextApi]_vars

-----------------------------------------------------------------------------
(* One default card reviewed many times in a row, the clock standing still *)

InitStreak == InitApi

ReviewStreak ==
    \E quality \in Qualities : update_card_on_review_upto(MaxStreak, quality)

NextStreak == ReviewStreak

SpecStreak == InitStreak /\ [][NextStreak]_vars

-----------------------------------------------------------------------------
(* Properties                                                              *)

\* the step is a call of update_card_on_review that returned normally
ReviewStep ==
    /\ reviews' = reviews + 1
    /\ lastReview'.op = "update_card_on_review"
    /\ lastReview'.ret = "ok"

Reviewed1 == card_data.has_history /\ Len(card_data.history) >= 1

LastEntry == card_data.history[Len(card_data.history)]

\* C1: from a card whose box is in [1, 5], the box is in [1, 5] after every
\* call of update_card_on_review, whatever the quality passed.
C1_BoxBounds == card_data.box \in 1 .. 5

\* a quality >= 4 review of a card already in box 5 left it in box 5
C1_Witness ==
    /\ Reviewed1
    /\ LastEntry.old_box = 5
    /\ LastEntry.quality >= 4
    /\ card_data.box = 5

\* C2: after every successful review the strength is at least 0.1, hence
\* positive, also after consecutive low-quality reviews.
C2_StrengthFloor ==
    Reviewed1 => (card_data.strength >= 100 /\ card_data.strength > 0)

\* two low-quality reviews in a row, the second one held up by the floor
C2_Witness ==
    /\ Len(card_data.history) >= 2
    /\ card_data.history[1].quality <= 2
    /\ LastEntry.quality = 0
    /\ LastEntry.old_strength * 45 < 100 * 100
    /\ card_data.strength = 100

\* C3: a call with quality < 0 or quality > 5 fails with the invalid-quality
\* error and leaves every field of the card record, the history and the
\* presence of the history key as they were.
C3_RejectedUnchanged ==
    [][(lastReview'.op = "update_card_on_review"
          /\ (lastReview'.quality < 0 \/ lastReview'.quality > 5))
       => (lastReview'.ret = "ValueError" /\ card_data' = card_data)]_vars

\* quality 6 was rejected for a card that has been reviewed before
C3_Witness ==
    /\ lastReview.op = "update_card_on_review"
    /\ lastReview.quality = 6
    /\ lastReview.ret = "ValueError"
    /\ Reviewed1

\* C4: a successful review lengthens the history by exactly one entry and
\* keeps the old history as a prefix; for a card created without history the
\* length of the history is the number of calls with a quality in [0, 5].
C4_HistoryAppendOnly ==
    /\ [][ReviewStep =>
            /\ Len(card_data'.history) = Len(card_data.history) + 1
            /\ SubSeq(card_data'.history, 1, Len(card_data.history))
                  = card_data.history]_vars
    /\ [](Len(card_data.history) = reviews)

\* a second review was appended behind the first
C4_Witness ==
    /\ reviews = 2
    /\ Len(card_data.history) = 2
    /\ lastReview.op = "update_card_on_review"
    /\ lastReview.ret = "ok"

\* the box the transition rule gives, written from the rule
C5_Expected(old_box, quality) ==
    CASE quality >= 4 -> IF old_box + 1 > 5 THEN 5 ELSE old_box + 1
      [] quality <= 2 -> 1
      [] quality = 3  -> old_box

\* C5: for every box in [1, 5] and quality in [0, 5] a review moves the box
\* to min(5, box + 1) when quality >= 4, to 1 when quality <= 2 and leaves
\* it when quality = 3, whatever the strength and the time.
C5_BoxTransition ==
    [][ReviewStep =>
         card_data'.box = C5_Expected(card_data.box, lastReview'.quality)]_vars

\* a quality 3 review left a card in box 3
C5_Witness ==
    /\ Reviewed1
    /\ LastEntry.quality = 3
    /\ LastEntry.old_box = 3
    /\ card_data.box = 3

\* the multiplier table of the rule, in hundredths
C6_m(quality) ==
    CASE quality = 5 -> 130
      [] quality = 4 -> 115
      [] quality = 3 -> 105
      [] quality = 2 -> 85
      [] quality = 1 -> 60
      [] quality = 0 -> 45

\* C6: a review with quality q sets the strength to
\* max(0.1, old_strength * m(q)), plus 0.2 after the floor when q = 5; so 1.0
\* reviewed with 5 becomes 1.5 and 2.0 reviewed with 1 becomes 1.2.
C6_StrengthUpdate ==
    [][ReviewStep =>
         LET q       == lastReview'.quality
             scaled  == RoundDiv(card_data.strength * C6_m(q), 100)
             floored == IF scaled < 100 THEN 100 ELSE scaled
         IN  /\ card_data'.strength = floored + (IF q = 5 THEN 200 ELSE 0)
             /\ (card_data.strength = 1000 /\ q = 5)
                   => card_data'.strength = 1500
             /\ (card_data.strength = 2000 /\ q = 1)
                   => card_data'.strength = 1200]_vars

\* strength 1.0 was reviewed with quality 5 and became 1.5
C6_Witness ==
    /\ Reviewed1
    /\ LastEntry.quality = 5
    /\ LastEntry.old_strength = 1000
    /\ card_data.strength = 1500

\* C7: for every strength > 0 and every now, the scheduler returns a time at
\* least 0.5 days after now; the interval is exactly 0.5 days only when
\* -strength * ln(0.85) is not above 0.5 days, and is -strength * ln(0.85)
\* otherwise.
C7_MinInterval ==
    (lastCall.op = "schedule_next_review" /\ lastCall.args[1] > 0) =>
        LET strength == lastCall.args[1]
            now      == lastCall.args[2]
            interval == fromisoformat(lastCall.ret) - now
            computed == RoundDiv(strength * 162519, 1000)
        IN  /\ interval >= 500000
            /\ (interval = 500000) => (computed <= 500000)
            /\ (computed > 500000) => (interval = computed)

\* a strength whose computed interval undercuts the floor was scheduled half
\* a day out, from a clock that had moved off the epoch
C7_Witness ==
    /\ lastCall.op = "schedule_next_review"
    /\ lastCall.args[1] = 3076
    /\ lastCall.args[2] > 0
    /\ fromisoformat(lastCall.ret) - lastCall.args[2] = 500000

\* C8: a successful review stores next_review = now + max(0.5,
\* -new_strength * ln(0.85)) days, computed from the strength stored by the
\* same call and not from the strength before the call.
C8_ScheduleFromNewStrength ==
    [][ReviewStep =>
         LET computed == RoundDiv(card_data'.strength * 162519, 1000)
             t_days   == IF computed > 500000 THEN computed ELSE 500000
         IN  /\ card_data'.next_review = isoformat(clock + t_days)
             /\ card_data'.next_review
                   = schedule_next_review(card_data'.strength, clock)]_vars

\* the old strength would have been scheduled at the floor, the new is not
C8_Witness ==
    /\ Reviewed1
    /\ RoundDiv(LastEntry.old_strength * 162519, 1000) < 500000
    /\ RoundDiv(card_data.strength * 162519, 1000) > 500000
    /\ fromisoformat(card_data.next_review)
          - fromisoformat(card_data.last_review) > 500000

\* C9: one clock sample serves a whole review: once a card has been reviewed,
\* last_review is the time of the last history entry, and next_review is
\* that instant plus the scheduled interval, at least 0.5 days later.
C9_OneClockSample ==
    Reviewed1 =>
        LET computed == RoundDiv(card_data.strength * 162519, 1000)
            t_days   == IF computed > 500000 THEN computed ELSE 500000
        IN  /\ card_data.last_review = LastEntry.time
            /\ fromisoformat(card_data.next_review)
                  >= fromisoformat(card_data.last_review) + 500000
            /\ fromisoformat(card_data.next_review)
                  = fromisoformat(LastEntry.time) + t_days

\* a review made at a later clock value than the card's first review
C9_Witness ==
    /\ Len(card_data.history) >= 2
    /\ card_data.history[1].time # LastEntry.time
    /\ card_data.last_review = LastEntry.time
    /\ fromisoformat(card_data.last_review) > 0

\* C10: the core functions are functions of their explicit arguments: two
\* calls of the same function with equal arguments (strength > 0) return
\* equal results, the current time not being read from the system clock
\* inside them.
C10_PureOfArguments ==
    (prevCall.op # "none" /\ prevCall.op = lastCall.op
       /\ prevCall.args = lastCall.args /\ lastCall.args[1] > 0)
    => prevCall.ret = lastCall.ret

\* a retention value that lies in [0, 1]
InUnit(r) == r.kind = "zero" \/ (r.kind = "exp" /\ r.ln <= 0)

RetCall(c) == c.op = "calculate_retention" /\ c.args[1] > 0

\* now - last_review of a retention call with a last_review
Elapsed(c) == c.now - fromisoformat(c.args[2])

\* C11: the retention predictor returns a value in [0, 1] for every
\* strength > 0, every last_review (absent or a timestamp) and every current
\* time.
C11_RetentionInUnit == RetCall(lastCall) => InUnit(lastCall.ret)

\* C11 as amended: the retention predictor returns a value in [0, 1] for
\* every strength > 0 when last_review is absent or not later than the
\* current time.
C11_RetentionInUnitPast ==
    (RetCall(lastCall)
       /\ (lastCall.args[2] = None \/ Elapsed(lastCall) >= 0))
    => InUnit(lastCall.ret)

\* a card reviewed half a day ago has a retention strictly between 0 and 1
C11_Witness ==
    /\ RetCall(lastCall)
    /\ lastCall.args[2] # None
    /\ Elapsed(lastCall) = 2 * ClockStep
    /\ lastCall.ret.kind = "exp"
    /\ lastCall.ret.ln < 0

\* C12: with an absent last_review the retention predictor returns exactly
\* 0.0 for every strength > 0 at every current time.
C12_UnreviewedIsZero ==
    (RetCall(lastCall) /\ lastCall.args[2] = None) => lastCall.ret = Zero

\* the predictor was called without last_review after the clock had moved
C12_Witness ==
    /\ RetCall(lastCall)
    /\ lastCall.args[2] = None
    /\ lastCall.now > 0
    /\ lastCall.ret = Zero

\* two retention calls for the same strength > 0 and the same last_review,
\* the later one after more elapsed time
C13_Pair ==
    /\ RetCall(prevCall)
    /\ RetCall(lastCall)
    /\ prevCall.args = lastCall.args
    /\ lastCall.args[2] # None
    /\ Elapsed(prevCall) < Elapsed(lastCall)

RetIsValue(r) == r.kind \in {"exp", "zero"}

RetLess(a, b) ==
    /\ RetIsValue(a) /\ RetIsValue(b)
    /\ b.kind = "exp"
    /\ (a.kind = "zero" \/ a.ln < b.ln)

RetLeq(a, b) ==
    /\ RetIsValue(a) /\ RetIsValue(b)
    /\ (a.kind = "zero" \/ (b.kind = "exp" /\ a.ln <= b.ln))

C13_OneAtZero ==
    (RetCall(lastCall) /\ lastCall.args[2] # None /\ Elapsed(lastCall) = 0)
    => lastCall.ret = [kind |-> "exp", ln |-> 0]

C14_HistoryChronological ==
    \A i \in 1 .. Len(card_data.history) - 1 :
        fromisoformat(card_data.history[i].time)
          <= fromisoformat(card_data.history[i + 1].time)

\* the boxes a card can come to from the boxes in S by reviews of quality 0..5
RECURSIVE BoxesFrom(_)
BoxesFrom(S) ==
    LET T == S \cup {NewBox(b, q) : b \in S, q \in 0 .. 5}
    IN  IF T = S THEN S ELSE BoxesFrom(T)

ValidReview ==
    \E quality \in 0 .. 5 : update_card_on_review_upto(MaxStreak, quality)

\* C15: no box is terminal: a review with quality <= 2 moves the card to
\* box 1 in one step from every box, box 5 included; from every box every
\* box of 1..5 can be reached by valid reviews; and a valid review is enabled
\* in every reachable state (below the bound on the length of the history).
C15_NoTerminalBox ==
    /\ (Reviewed1 /\ LastEntry.quality <= 2) => card_data.box = 1
    /\ \A b \in 1 .. 5 : BoxesFrom({b}) = 1 .. 5
    /\ (Len(card_data.history) < MaxStreak) => ENABLED ValidReview

\* a card that had risen from box 1 to box 5 was sent back to box 1 by a
\* poor review
C15_Witness ==
    /\ Reviewed1
    /\ card_data.history[1].old_box = 1
    /\ LastEntry.old_box = 5
    /\ LastEntry.quality <= 2
    /\ card_data.box = 1

\* C16: the entry a review appends records the card's strength and box from
\* just before the review as old_* and the stored ones as new_*; so the last
\* entry's new_* are the card's current strength and box, and each entry's
\* old_* are the new_* of the entry before it.
C16_AuditTrail ==
    /\ [][ReviewStep =>
            LET e == card_data'.history[Len(card_data'.history)]
            IN  /\ e.old_strength = card_data.strength
                /\ e.old_box = card_data.box
                /\ e.new_strength = card_data'.strength
                /\ e.new_box = card_data'.box
                /\ e.quality = lastReview'.quality]_vars
    /\ [](Reviewed1 =>
            /\ LastEntry.new_strength = card_data.strength
            /\ LastEntry.new_box = card_data.box
            /\ \A i \in 1 .. Len(card_data.history) - 1 :
                  /\ card_data.history[i + 1].old_strength
                        = card_data.history[i].new_strength
                  /\ card_data.history[i + 1].old_box
                        = card_data.history[i].new_box)

\* two chained entries, each of which changed both strength and box
C16_Witness ==
    /\ Len(card_data.history) = 2
    /\ card_data.history[1].old_strength # card_data.history[1].new_strength
    /\ card_data.history[1].old_box # card_data.history[1].new_box
    /\ card_data.history[2].old_strength = card_data.history[1].new_strength
    /\ card_data.history[2].old_box = card_data.history[1].new_box
    /\ card_data.history[2].new_strength # card_data.history[2].old_strength
    /\ card_data.history[2].new_box # card_data.history[2].old_box
    /\ card_data.strength = card_data.history[2].new_strength

\* C17: a review with quality >= 3 strictly increases the strength, quality
\* 3 included although it leaves the box; a review with quality <= 2 of a
\* card whose strength is at least 0.1 never increases it.
C17_StrengthDirection ==
    [][ReviewStep =>
         /\ (lastReview'.quality >= 3)
               => card_data'.strength > card_data.strength
         /\ (lastReview'.quality <= 2 /\ card_data.strength >= 100)
               => card_data'.strength <= card_data.strength]_vars

\* a quality 3 review raised the strength and left the box
C17_Witness ==
    /\ Reviewed1
    /\ LastEntry.quality = 3
    /\ LastEntry.new_strength > LastEntry.old_strength
    /\ LastEntry.new_box = LastEntry.old_box

\* the number of quality >= 4 reviews since the latest quality <= 2 review
RECURSIVE Streak(_)
Streak(h) ==
    IF h = <<>> THEN 0
    ELSE LET e    == h[Len(h)]
             rest == SubSeq(h, 1, Len(h) - 1)
         IN  IF e.quality <= 2 THEN 0
             ELSE IF e.quality >= 4 THEN 1 + Streak(rest)
             ELSE Streak(rest)

\* C18: for a card created in box 1 the box is min(5, 1 + k), k being the
\* number of quality >= 4 reviews since the latest quality <= 2 review; the
\* box rises by at most 1 per review and box 5 needs k >= 4.
C18_BoxIsStreak ==
    /\ [](LET k == Streak(card_data.history)
          IN  /\ card_data.box = (IF 1 + k > 5 THEN 5 ELSE 1 + k)
              /\ (card_data.box = 5) => (k >= 4))
    /\ [][card_data'.box <= card_data.box + 1]_vars

\* box 5 reached by four good reviews after a poor one
C18_Witness ==
    /\ Len(card_data.history) = 5
    /\ card_data.history[1].quality <= 2
    /\ Streak(card_data.history) = 4
    /\ card_data.box = 5

\* C19: a successful review changes only strength, box, last_review,
\* next_review and history of the record; id, front and back keep their
\* values, the record returned is the record passed in, as updated, and no
\* other card record is changed.
C19_Frame ==
    [][ReviewStep =>
         /\ card_data'.id = card_data.id
         /\ card_data'.front = card_data.front
         /\ card_data'.back = card_data.back
         /\ DOMAIN card_data' = DOMAIN card_data
         /\ lastReview'.returned = card_data'
         /\ card_data' # card_data
         /\ other_card' = other_card]_vars

\* the caller's record is the returned one, with its descriptive fields kept
C19_Witness ==
    /\ lastReview.op = "update_card_on_review"
    /\ lastReview.ret = "ok"
    /\ lastReview.returned = card_data
    /\ Len(card_data.history) = 2
    /\ card_data.front = "front"
    /\ other_card = OtherCard

====
